---------------------------- MODULE Spec2Model ----------------------------
(***************************************************************************)
(* A model of the ERCx API wrapper: the request dispatcher                 *)
(* (RestClient._send_request, src/client.py) and the domain types          *)
(* (Network, TestLevel, Permission, TokenInfo, src/api.py).                *)
(*                                                                         *)
(* Text that the code inspects character by character (enumeration         *)
(* literals, response bodies) is a sequence of one-character strings;      *)
(* text the code only concatenates or passes on (URLs, keys) is a string.  *)
(***************************************************************************)
EXTENDS Integers, Sequences, FiniteSets, TLC

VARIABLES
    api_url,    \* RestClient.api_url
    api_key,    \* RestClient.api_key
    pc,         \* pc[p]: where invocation p of _send_request stands
    frame,      \* frame[p]: arguments and locals of invocation p
    calls,      \* calls[p]: the transport calls invocation p has made, in order
    reply,      \* reply[p]: what the transport gave back to invocation p
    outcome,    \* outcome[p]: what invocation p returned or raised
    fn,         \* the domain-type function last applied
    arg,        \* its argument
    ret         \* its result

vars == <<api_url, api_key, pc, frame, calls, reply, outcome, fn, arg, ret>>
clientVars == <<api_url, api_key, pc, frame, calls, reply, outcome>>
domainVars == <<fn, arg, ret>>

-----------------------------------------------------------------------------
(* Bounds *)

\* Number of call sites that may be inside _send_request at the same time.
NumProcs == 2
\* Longest response body enumerated over BodyAlphabet.
MaxBodyLen == 2
\* Number of leading characters of a literal whose case is varied freely.
MaskWidth == 3

Procs == 1..NumProcs

-----------------------------------------------------------------------------
(* Python values *)

\* Python's None; also what JSON null decodes to.
None == [t |-> "null"]
PyBool(b) == [t |-> "bool", b |-> b]
PyInt(n) == [t |-> "num", n |-> n]
PyStr(s) == [t |-> "str", s |-> s]
PyList(items) == [t |-> "arr", items |-> items]
\* A dict is its items in insertion order, each item <<key, value>>.
PyDict(members) == [t |-> "obj", members |-> members]

\* bool(v), as used by `if data:`.
Truthy(v) ==
    CASE v.t = "null" -> FALSE
      [] v.t = "bool" -> v.b
      [] v.t = "num" -> v.n # 0
      [] v.t = "str" -> v.s # <<>>
      [] v.t = "arr" -> v.items # <<>>
      [] v.t = "obj" -> v.members # <<>>

Keys(d) == {d.members[i][1] : i \in 1..Len(d.members)}

\* d[k] for a key the dict holds.
Lookup(d, k) ==
    d.members[CHOOSE i \in 1..Len(d.members) : d.members[i][1] = k][2]

\* d[k] = v on the item list: a repeated key keeps its place and takes the new value.
SetItem(members, k, v) ==
    IF \E i \in 1..Len(members) : members[i][1] = k
    THEN [i \in 1..Len(members) |->
            IF members[i][1] = k THEN <<k, v>> ELSE members[i]]
    ELSE Append(members, <<k, v>>)


-----------------------------------------------------------------------------
(* JSON text, as response.json() reads it and as json=... writes it.       *)
(* The subset modelled: whitespace, null, true, false, integers, strings   *)
(* without escapes, arrays and objects.  No input of the model holds a     *)
(* backslash, a fraction or an exponent.                                   *)

Digits == {"0", "1", "2", "3", "4", "5", "6", "7", "8", "9"}
DigitVal(c) ==
    CASE c = "0" -> 0 [] c = "1" -> 1 [] c = "2" -> 2 [] c = "3" -> 3
      [] c = "4" -> 4 [] c = "5" -> 5 [] c = "6" -> 6 [] c = "7" -> 7
      [] c = "8" -> 8 [] c = "9" -> 9
DigitChar(n) ==
    CASE n = 0 -> "0" [] n = 1 -> "1" [] n = 2 -> "2" [] n = 3 -> "3"
      [] n = 4 -> "4" [] n = 5 -> "5" [] n = 6 -> "6" [] n = 7 -> "7"
      [] n = 8 -> "8" [] n = 9 -> "9"
Whitespace == {" ", "\t", "\n", "\r"}
Quote == "\""

ParseFail == [ok |-> FALSE, val |-> None, pos |-> 0]
ParseOk(v, next) == [ok |-> TRUE, val |-> v, pos |-> next]

RECURSIVE SkipWS(_, _)
\* The first position from i on that holds no whitespace (Len(s) + 1 if none).
SkipWS(s, i) ==
    IF i <= Len(s) /\ s[i] \in Whitespace THEN SkipWS(s, i + 1) ELSE i

\* The word w read at position i.
ParseLiteral(s, i, w, v) ==
    IF i + Len(w) - 1 <= Len(s) /\ SubSeq(s, i, i + Len(w) - 1) = w
    THEN ParseOk(v, i + Len(w))
    ELSE ParseFail

RECURSIVE ScanDigits(_, _, _)
\* The digits from position i on, read as a decimal number after acc.
ScanDigits(s, i, acc) ==
    IF i <= Len(s) /\ s[i] \in Digits
    THEN ScanDigits(s, i + 1, 10 * acc + DigitVal(s[i]))
    ELSE ParseOk(PyInt(acc), i)

\* -?(0|[1-9][0-9]*)
ParseNumber(s, i) ==
    LET neg == s[i] = "-"
        d == IF neg THEN i + 1 ELSE i
    IN  IF d > Len(s) \/ s[d] \notin Digits THEN ParseFail
        ELSE LET r == IF s[d] = "0" THEN ParseOk(PyInt(0), d + 1)
                      ELSE ScanDigits(s, d, 0)
             IN  IF neg THEN ParseOk(PyInt(0 - r.val.n), r.pos) ELSE r

RECURSIVE ScanString(_, _, _)
\* The characters from position i up to the closing quote.
ScanString(s, i, acc) ==
    IF i > Len(s) THEN ParseFail
    ELSE IF s[i] = Quote THEN ParseOk(PyStr(acc), i + 1)
    ELSE ScanString(s, i + 1, Append(acc, s[i]))

\* A string whose opening quote is at position i.
ParseString(s, i) == ScanString(s, i + 1, <<>>)

RECURSIVE ParseValue(_, _)
RECURSIVE ParseElements(_, _, _)
RECURSIVE ParseMembers(_, _, _)

\* The value that starts at the first non-blank position from i on.
ParseValue(s, i) ==
    LET j == SkipWS(s, i) IN
    IF j > Len(s) THEN ParseFail
    ELSE CASE s[j] = "{" ->
                LET k == SkipWS(s, j + 1) IN
                IF k <= Len(s) /\ s[k] = "}" THEN ParseOk(PyDict(<<>>), k + 1)
                ELSE ParseMembers(s, k, <<>>)
           [] s[j] = "[" ->
                LET k == SkipWS(s, j + 1) IN
                IF k <= Len(s) /\ s[k] = "]" THEN ParseOk(PyList(<<>>), k + 1)
                ELSE ParseElements(s, k, <<>>)
           [] s[j] = Quote -> ParseString(s, j)
           [] s[j] \in Digits \cup {"-"} -> ParseNumber(s, j)
           [] s[j] = "n" -> ParseLiteral(s, j, <<"n", "u", "l", "l">>, None)
           [] s[j] = "t" -> ParseLiteral(s, j, <<"t", "r", "u", "e">>, PyBool(TRUE))
           [] s[j] = "f" ->
                ParseLiteral(s, j, <<"f", "a", "l", "s", "e">>, PyBool(FALSE))
           [] OTHER -> ParseFail

\* The rest of an array after "[" and the elements acc.
ParseElements(s, i, acc) ==
    LET r == ParseValue(s, i) IN
    IF ~r.ok THEN ParseFail
    ELSE LET k == SkipWS(s, r.pos) IN
         IF k > Len(s) THEN ParseFail
         ELSE IF s[k] = "," THEN ParseElements(s, k + 1, Append(acc, r.val))
         ELSE IF s[k] = "]" THEN ParseOk(PyList(Append(acc, r.val)), k + 1)
         ELSE ParseFail

\* The rest of an object after "{" and the members acc.
ParseMembers(s, i, acc) ==
    LET k == SkipWS(s, i) IN
    IF k > Len(s) \/ s[k] # Quote THEN ParseFail
    ELSE LET key == ParseString(s, k) IN
         IF ~key.ok THEN ParseFail
         ELSE LET c == SkipWS(s, key.pos) IN
              IF c > Len(s) \/ s[c] # ":" THEN ParseFail
              ELSE LET r == ParseValue(s, c + 1) IN
                   IF ~r.ok THEN ParseFail
                   ELSE LET e == SkipWS(s, r.pos)
                            got == SetItem(acc, key.val.s, r.val)
                        IN  IF e > Len(s) THEN ParseFail
                            ELSE IF s[e] = "," THEN ParseMembers(s, e + 1, got)
                            ELSE IF s[e] = "}" THEN ParseOk(PyDict(got), e + 1)
                            ELSE ParseFail

\* json.loads(text): one value, blanks around it, nothing after it.
Loads(text) ==
    LET r == ParseValue(text, 1) IN
    IF r.ok /\ SkipWS(text, r.pos) > Len(text) THEN r ELSE ParseFail

RECURSIVE NatDigits(_)
NatDigits(n) ==
    IF n < 10 THEN <<DigitChar(n)>>
    ELSE Append(NatDigits(n \div 10), DigitChar(n % 10))

RECURSIVE Dumps(_)
RECURSIVE DumpsList(_, _)
RECURSIVE DumpsItems(_, _)

\* json.dumps(v) with the default separators ", " and ": ".
Dumps(v) ==
    CASE v.t = "null" -> <<"n", "u", "l", "l">>
      [] v.t = "bool" ->
            IF v.b THEN <<"t", "r", "u", "e">> ELSE <<"f", "a", "l", "s", "e">>
      [] v.t = "num" ->
            IF v.n < 0 THEN <<"-">> \o NatDigits(0 - v.n) ELSE NatDigits(v.n)
      [] v.t = "str" -> <<Quote>> \o v.s \o <<Quote>>
      [] v.t = "arr" -> <<"[">> \o DumpsList(v.items, 1) \o <<"]">>
      [] v.t = "obj" -> <<"{">> \o DumpsItems(v.members, 1) \o <<"}">>

DumpsList(items, i) ==
    IF i > Len(items) THEN <<>>
    ELSE (IF i > 1 THEN <<",", " ">> ELSE <<>>)
         \o Dumps(items[i]) \o DumpsList(items, i + 1)

DumpsItems(members, i) ==
    IF i > Len(members) THEN <<>>
    ELSE (IF i > 1 THEN <<",", " ">> ELSE <<>>)
         \o <<Quote>> \o members[i][1] \o <<Quote, ":", " ">>
         \o Dumps(members[i][2]) \o DumpsItems(members, i + 1)

-----------------------------------------------------------------------------
(* RestClient (src/client.py) *)

\* The configuration the client is constructed with.
ConfigUrl == "https://ercx.example/api/"
ConfigKey == "secret-key"

NoFrame == [method |-> "-"]
NoReply == [kind |-> "none"]
NoOutcome == [kind |-> "none"]

Returned(v) == [kind |-> "return", value |-> v]
Raised(e) == [kind |-> "raise", exc |-> e]

\* headers = {'X-API-KEY': self.api_key}
Headers(key) == [X_API_KEY |-> key]
\* url = self.api_url + end_point
Url(base, end_point) == base \o end_point

SupportedMethods == {"GET", "POST", "DELETE"}

\* Mutant: GET passes the data on as json=..., as POST and DELETE do.
TransportCall_GetWithJson(method, url, headers, data, parameters) ==
    CASE method = "GET" ->
            IF Truthy(data)
            THEN [verb |-> "get", url |-> url, headers |-> headers,
                  params |-> parameters, json |-> data]
            ELSE [verb |-> "get", url |-> url, headers |-> headers,
                  params |-> parameters]
      [] method = "POST" ->
            IF Truthy(data)
            THEN [verb |-> "post", url |-> url, headers |-> headers, json |-> data]
            ELSE [verb |-> "post", url |-> url, headers |-> headers]
      [] method = "DELETE" ->
            IF Truthy(data)
            THEN [verb |-> "delete", url |-> url, headers |-> headers, json |-> data]
            ELSE [verb |-> "delete", url |-> url, headers |-> headers]

\* The transport call _send_request makes for a supported method: the function
\* of the requests library and the keyword arguments it is given.
TransportCall(method, url, headers, data, parameters) ==
    CASE method = "GET" ->
            [verb |-> "get", url |-> url, headers |-> headers, params |-> parameters]
      [] method = "POST" ->
            IF Truthy(data)
            THEN [verb |-> "post", url |-> url, headers |-> headers, json |-> data]
            ELSE [verb |-> "post", url |-> url, headers |-> headers]
      [] method = "DELETE" ->
            IF Truthy(data)
            THEN [verb |-> "delete", url |-> url, headers |-> headers, json |-> data]
            ELSE [verb |-> "delete", url |-> url, headers |-> headers]

\* Mutant: the ValueError is caught with the transport's exceptions and wrapped.
InvalidMethod_Wrapped(method) ==
    [cls |-> "Exception", msg |-> "Request error: ", detail |-> method,
     cause |-> [cls |-> "ValueError", why |-> method]]

\* raise ValueError(f'Invalid method: {method}')
InvalidMethod(method) ==
    [cls |-> "ValueError", msg |-> "Invalid method: ", method |-> method]

\* Mutant: the transport's exception is re-raised as it is.
RequestError_Reraised(e) == e

\* raise Exception(f'Request error: {e}') from e
RequestError(e) ==
    [cls |-> "Exception", msg |-> "Request error: ", detail |-> e.why, cause |-> e]

\* raise Exception(f'Request failed with status code {response.status_code}') from None
RequestFailed(status_code) ==
    [cls |-> "Exception", msg |-> "Request failed with status code ",
     status |-> status_code, cause |-> None]

\* Mutant: 204 No Content counts as a success.
SuccessCodes_With204 == {200, 201, 204}

SuccessCodes == {200, 201}

\* Mutant: a body that does not decode is returned as text.
ResponseJson_TextFallback(response) ==
    LET r == Loads(response.text) IN
    IF r.ok THEN Returned(r.val) ELSE Returned(PyStr(response.text))

\* response.json(): the decoded body, or the decoder's error.
ResponseJson(response) ==
    LET r == Loads(response.text) IN
    IF r.ok THEN Returned(r.val)
    ELSE Raised([cls |-> "JSONDecodeError", doc |-> response.text])

\* What _send_request does with the response it received.
Interpret(response) ==
    IF response.status_code \in SuccessCodes
    THEN ResponseJson(response)
    ELSE Raised(RequestFailed(response.status_code))

\* The body requests puts on the wire for a call: json=... serialized, else none.
NoBody == <<"<", "n", "o", " ", "b", "o", "d", "y", ">">>
HasBody(call) == "json" \in DOMAIN call /\ call.json # None
WireBody(call) == IF HasBody(call) THEN Dumps(call.json) ELSE NoBody
\* The query string requests derives from params=...: none for None or {}.
HasQuery(call) == "params" \in DOMAIN call /\ Truthy(call.params)

\* Lines 24-27: the invocation starts and builds its headers and URL.
Call(p, method, end_point, data, parameters) ==
    /\ pc[p] = "idle"
    /\ frame' = [frame EXCEPT ![p] =
            [method |-> method, end_point |-> end_point, data |-> data,
             parameters |-> parameters,
             headers |-> Headers(api_key), url |-> Url(api_url, end_point)]]
    /\ pc' = [pc EXCEPT ![p] = "called"]
    /\ UNCHANGED <<api_url, api_key, calls, reply, outcome, domainVars>>

\* Lines 31-42: a supported method hands one request to the transport.
Send(p) ==
    /\ pc[p] = "called"
    /\ frame[p].method \in SupportedMethods
    /\ calls' = [calls EXCEPT ![p] = Append(@,
            TransportCall(frame[p].method, frame[p].url, frame[p].headers,
                          frame[p].data, frame[p].parameters))]
    /\ pc' = [pc EXCEPT ![p] = "sent"]
    /\ UNCHANGED <<api_url, api_key, frame, reply, outcome, domainVars>>

\* Lines 43-44: any other method raises ValueError, which the except clause
\* for RequestException does not catch.
RaiseInvalidMethod(p) ==
    /\ pc[p] = "called"
    /\ frame[p].method \notin SupportedMethods
    /\ outcome' = [outcome EXCEPT ![p] = Raised(InvalidMethod(frame[p].method))]
    /\ pc' = [pc EXCEPT ![p] = "done"]
    /\ UNCHANGED <<api_url, api_key, frame, calls, reply, domainVars>>

\* The transport answers the request with a response.
TransportReturns(p, status_code, text) ==
    /\ pc[p] = "sent"
    /\ reply' = [reply EXCEPT ![p] =
            [kind |-> "response",
             response |-> [status_code |-> status_code, text |-> text]]]
    /\ pc' = [pc EXCEPT ![p] = "responded"]
    /\ UNCHANGED <<api_url, api_key, frame, calls, outcome, domainVars>>

\* The transport raises a requests.exceptions.RequestException.
TransportRaises(p, e) ==
    /\ pc[p] = "sent"
    /\ reply' = [reply EXCEPT ![p] = [kind |-> "raise", exc |-> e]]
    /\ pc' = [pc EXCEPT ![p] = "failed"]
    /\ UNCHANGED <<api_url, api_key, frame, calls, outcome, domainVars>>

\* Mutant: a failed request is sent once more.
HandleRequestException_Retry(p) ==
    /\ pc[p] = "failed"
    /\ calls' = [calls EXCEPT ![p] = 
            Append(calls[p], calls[p][Len(calls[p])])]
    /\ reply' = [reply EXCEPT ![p] = NoReply]
    /\ pc' = [pc EXCEPT ![p] = "sent"]
    /\ UNCHANGED <<api_url, api_key, frame, outcome, domainVars>>

\* Lines 46-48: the RequestException is re-raised as Exception('Request error').
HandleRequestException(p) ==
    /\ pc[p] = "failed"
    /\ outcome' = [outcome EXCEPT ![p] = Raised(RequestError(reply[p].exc))]
    /\ pc' = [pc EXCEPT ![p] = "done"]
    /\ UNCHANGED <<api_url, api_key, frame, calls, reply, domainVars>>

\* Mutant: the response is kept in a buffer all invocations share, and the
\* invocation reads whichever response is in it.
HandleResponse_SharedBuffer(p) ==
    /\ pc[p] = "responded"
    /\ outcome' = [outcome EXCEPT ![p] =
            Interpret(reply[CHOOSE q \in Procs : reply[q].kind = "response"].response)]
    /\ pc' = [pc EXCEPT ![p] = "done"]
    /\ UNCHANGED <<api_url, api_key, frame, calls, reply, domainVars>>

\* Lines 50-59: the status code decides between decoding and raising.
HandleResponse(p) ==
    /\ pc[p] = "responded"
    /\ outcome' = [outcome EXCEPT ![p] = Interpret(reply[p].response)]
    /\ pc' = [pc EXCEPT ![p] = "done"]
    /\ UNCHANGED <<api_url, api_key, frame, calls, reply, domainVars>>

\* The caller takes the outcome; the invocation's frame is discarded.
Return(p) ==
    /\ pc[p] = "done"
    /\ pc' = [pc EXCEPT ![p] = "idle"]
    /\ frame' = [frame EXCEPT ![p] = NoFrame]
    /\ calls' = [calls EXCEPT ![p] = <<>>]
    /\ reply' = [reply EXCEPT ![p] = NoReply]
    /\ outcome' = [outcome EXCEPT ![p] = NoOutcome]
    /\ UNCHANGED <<api_url, api_key, domainVars>>

-----------------------------------------------------------------------------
(* Inputs of the client model *)

\* "PUT", "get" and "" stand for every string that is not GET, POST or DELETE.
Methods == {"GET", "POST", "DELETE", "PUT", "get", ""}
EndPoints == {"user", "token-lists"}
NameKey == <<"n", "a", "m", "e">>
DataValues ==
    {None, PyDict(<<>>), PyDict(<< <<NameKey, PyStr(<<"l", "1">>)>> >>)}
ParamValues ==
    {None,
     PyDict(<< <<<<"s", "t", "d">>, PyStr(<<"E", "R", "C", "2", "0">>)>> >>)}
StatusCodes == {200, 201, 204, 404, 500}

\* {"a":1}
BodyA1 == <<"{", Quote, "a", Quote, ":", "1", "}">>
\* not json
BodyNotJson == <<"n", "o", "t", " ", "j", "s", "o", "n">>
SampleBodies ==
    {BodyA1, BodyNotJson,
     <<"{", Quote, "a", Quote, ":", " ", "1", "}">>,
     <<"{", Quote, "a", Quote, ":", "1">>,
     <<"{", Quote, "a", Quote, ":", "1", ",", Quote, "a", Quote, ":", "2", "}">>,
     <<"[", "1", ",", " ", Quote, "a", Quote, "]">>,
     <<"n", "u", "l", "l">>,
     <<"t", "r", "u", "e">>,
     <<" ", "-", "1", "0", "\n">>,
     <<"0", "1">>,
     <<"<", "h", "t", "m", "l", ">">>}
    \cup {Dumps(v) : v \in DataValues}
BodyAlphabet == {"[", "]", "1", ",", Quote, "a"}
Bodies == SampleBodies \cup UNION {[1..k -> BodyAlphabet] : k \in 0..MaxBodyLen}

\* Connection refused, DNS failure, timeout, TLS failure: the subclasses of
\* requests.exceptions.RequestException the transport raises for them.
RequestExceptions ==
    {[cls |-> "ConnectionError", why |-> "connection refused"],
     [cls |-> "ConnectionError", why |-> "name resolution failed"],
     [cls |-> "ConnectTimeout", why |-> "connect timed out"],
     [cls |-> "ReadTimeout", why |-> "read timed out"],
     [cls |-> "SSLError", why |-> "certificate verify failed"]}

AllInputs ==
    [methods |-> Methods, end_points |-> EndPoints, data |-> DataValues,
     parameters |-> ParamValues, status_codes |-> StatusCodes,
     bodies |-> Bodies, exceptions |-> RequestExceptions]

\* A cut of the inputs that keeps every branch of _send_request.
FewInputs ==
    [methods |-> {"GET", "POST", "PUT"}, end_points |-> {"user"},
     data |-> {None, PyDict(<< <<NameKey, PyStr(<<"l", "1">>)>> >>)},
     parameters |-> {None}, status_codes |-> {200, 404},
     bodies |-> {BodyA1, BodyNotJson},
     exceptions |-> {[cls |-> "ReadTimeout", why |-> "read timed out"]}]

Init ==
    /\ api_url = ConfigUrl
    /\ api_key = ConfigKey
    /\ pc = [p \in Procs |-> "idle"]
    /\ frame = [p \in Procs |-> NoFrame]
    /\ calls = [p \in Procs |-> <<>>]
    /\ reply = [p \in Procs |-> NoReply]
    /\ outcome = [p \in Procs |-> NoOutcome]
    /\ fn = "none"
    /\ arg = None
    /\ ret = NoOutcome

\* One step of invocation p, its inputs and its transport's answers drawn from in.
ClientStep(p, in) ==
    \/ \E method \in in.methods, end_point \in in.end_points,
          data \in in.data, parameters \in in.parameters :
            Call(p, method, end_point, data, parameters)
    \/ Send(p)
    \/ RaiseInvalidMethod(p)
    \/ \E status_code \in in.status_codes, text \in in.bodies :
            TransportReturns(p, status_code, text)
    \/ \E e \in in.exceptions : TransportRaises(p, e)
    \/ HandleRequestException(p)
    \/ HandleResponse(p)
    \/ Return(p)

\* One call site, every input.
Next == ClientStep(1, AllInputs)
Spec == Init /\ [][Next]_vars

\* NumProcs call sites sharing one client, interleaved at every step.
NextConcurrent == \E p \in Procs : ClientStep(p, FewInputs)
SpecConcurrent == Init /\ [][NextConcurrent]_vars

-----------------------------------------------------------------------------
(* The outcomes of the specification, read off the exceptions of the code *)

HasMsg(x, msg) == "msg" \in DOMAIN x /\ x.msg = msg
\* UnsupportedMethod: ValueError('Invalid method: ...')
IsUnsupportedMethod(x) == x.cls = "ValueError" /\ HasMsg(x, "Invalid method: ")
\* TransportError: Exception('Request error: ...')
IsTransportError(x) == x.cls = "Exception" /\ HasMsg(x, "Request error: ")
\* HttpError: Exception('Request failed with status code ...')
IsHttpError(x) ==
    x.cls = "Exception" /\ HasMsg(x, "Request failed with status code ")
\* DecodeError: the error of the JSON decoder
IsDecodeError(x) == x.cls = "JSONDecodeError"

Done(p) == pc[p] = "done"
GotResponse(p) == reply[p].kind = "response"
GotFailure(p) == reply[p].kind = "raise"

-----------------------------------------------------------------------------
(* Claims about the request dispatcher *)

\* C1: an invocation whose method is not GET, POST or DELETE fails with
\* UnsupportedMethod (ValueError 'Invalid method') and never reaches the
\* transport, whatever its endpoint, body and query are.
C1_UnsupportedMethodFailsFast ==
    \A p \in Procs :
        (frame[p] # NoFrame /\ frame[p].method \notin {"GET", "POST", "DELETE"}) =>
            /\ calls[p] = <<>>
            /\ pc[p] \in {"called", "done"}
            /\ reply[p] = NoReply
            /\ Done(p) =>
                /\ outcome[p].kind = "raise"
                /\ IsUnsupportedMethod(outcome[p].exc)
                /\ outcome[p].exc.method = frame[p].method

C1_Witness ==
    \E p \in Procs :
        /\ Done(p)
        /\ frame[p].method = "PUT"
        /\ frame[p].data # None
        /\ outcome[p].kind = "raise"

\* C2: a response succeeds only with status 200 or 201; any other status s
\* raises HttpError carrying s, the same for every body.
C2_OtherStatusIsHttpError ==
    \A p \in Procs :
        Done(p) =>
            /\ (GotResponse(p) /\ reply[p].response.status_code \notin {200, 201}) =>
                    outcome[p] = Raised([cls |-> "Exception",
                        msg |-> "Request failed with status code ",
                        status |-> reply[p].response.status_code,
                        cause |-> None])
            /\ outcome[p].kind = "return" =>
                    (GotResponse(p) /\ reply[p].response.status_code \in {200, 201})

C2_Witness ==
    \E p \in Procs :
        /\ Done(p)
        /\ GotResponse(p)
        /\ reply[p].response = [status_code |-> 404, text |-> BodyA1]
        /\ IsHttpError(outcome[p].exc)

\* C3: an invocation with method GET, POST or DELETE calls the transport
\* exactly once, whatever its outcome: none before the request is sent, one
\* from then on, never a second.
C3_ExactlyOneTransportCall ==
    \A p \in Procs :
        frame[p].method \in {"GET", "POST", "DELETE"} =>
            /\ pc[p] = "called" => Len(calls[p]) = 0
            /\ pc[p] # "called" => Len(calls[p]) = 1
            /\ Done(p) => reply[p] # NoReply

C3_Witness ==
    \E p \in Procs :
        /\ Done(p)
        /\ GotFailure(p)
        /\ Len(calls[p]) = 1
        /\ IsTransportError(outcome[p].exc)

\* C4: a GET request carries no body whatever descriptor.body is; it carries
\* the query parameters and nothing else.
C4_GetCarriesNoBody ==
    \A p \in Procs :
        \A i \in 1..Len(calls[p]) :
            frame[p].method = "GET" =>
                /\ calls[p][i].verb = "get"
                /\ WireBody(calls[p][i]) = NoBody
                /\ "json" \notin DOMAIN calls[p][i]
                /\ calls[p][i].params = frame[p].parameters

C4_Witness ==
    \E p \in Procs :
        /\ frame[p].method = "GET"
        /\ Truthy(frame[p].data)
        /\ frame[p].parameters # None
        /\ Len(calls[p]) = 1
        /\ HasQuery(calls[p][1])

\* C5: a POST or DELETE request carries descriptor.body serialized as JSON
\* whenever the body is not None, and no body exactly when it is None.
C5_BodySentUnlessNone ==
    \A p \in Procs :
        \A i \in 1..Len(calls[p]) :
            frame[p].method \in {"POST", "DELETE"} =>
                IF frame[p].data = None
                THEN WireBody(calls[p][i]) = NoBody
                ELSE /\ WireBody(calls[p][i]) # NoBody
                     /\ Loads(WireBody(calls[p][i])) = 
                            ParseOk(frame[p].data, Len(WireBody(calls[p][i])) + 1)

\* C6: every transport failure is raised as the one kind TransportError
\* (Exception 'Request error'), whose cause is the failure; no other path
\* produces that kind, and it is none of the other three kinds.
C6_TransportFailuresAreOneKind ==
    \A p \in Procs :
        Done(p) =>
            /\ GotFailure(p) =>
                /\ outcome[p].kind = "raise"
                /\ IsTransportError(outcome[p].exc)
                /\ outcome[p].exc.cause = reply[p].exc
                /\ ~IsUnsupportedMethod(outcome[p].exc)
                /\ ~IsHttpError(outcome[p].exc)
                /\ ~IsDecodeError(outcome[p].exc)
            /\ (outcome[p].kind = "raise" /\ IsTransportError(outcome[p].exc)) =>
                    GotFailure(p)

C6_Witness ==
    \E p \in Procs :
        /\ Done(p)
        /\ GotFailure(p)
        /\ reply[p].exc.cls = "SSLError"
        /\ IsTransportError(outcome[p].exc)

\* C7: with status 200 or 201 the invocation returns the JSON value of the
\* body ({"a":1} gives the object with a = 1, the serialization of a value
\* gives that value); a body that is not JSON raises DecodeError, which is
\* neither TransportError nor HttpError, and returns nothing.
C7_SuccessReturnsParsedJson ==
    \A p \in Procs :
        (Done(p) /\ GotResponse(p) /\ reply[p].response.status_code \in {200, 201}) =>
            LET text == reply[p].response.text IN
            /\ text = BodyA1 =>
                    outcome[p] = Returned(PyDict(<< <<<<"a">>, PyInt(1)>> >>))
            /\ \A v \in DataValues : text = Dumps(v) => outcome[p] = Returned(v)
            /\ outcome[p].kind = "return" =>
                    /\ Loads(text).ok
                    /\ outcome[p].value = Loads(text).val
                    /\ Loads(Dumps(outcome[p].value)).val = outcome[p].value
            /\ outcome[p].kind = "raise" =>
                    /\ ~Loads(text).ok
                    /\ IsDecodeError(outcome[p].exc)
                    /\ ~IsTransportError(outcome[p].exc)
                    /\ ~IsHttpError(outcome[p].exc)
            /\ text \in {BodyNotJson, <<>>} => outcome[p].kind = "raise"

C7_Witness ==
    \E p \in Procs :
        /\ Done(p)
        /\ GotResponse(p)
        /\ reply[p].response = [status_code |-> 200, text |-> BodyNotJson]
        /\ IsDecodeError(outcome[p].exc)

-----------------------------------------------------------------------------
(* Domain types (src/api.py) *)

UpperLetters == 
    <<"A", "B", "C", "D", "E", "F", "G", "H", "I", "J", "K", "L", "M",
      "N", "O", "P", "Q", "R", "S", "T", "U", "V", "W", "X", "Y", "Z">>
LowerLetters == 
    <<"a", "b", "c", "d", "e", "f", "g", "h", "i", "j", "k", "l", "m",
      "n", "o", "p", "q", "r", "s", "t", "u", "v", "w", "x", "y", "z">>

\* str.lower() and str.upper() on one character; no input of the model holds a
\* character outside ASCII.
LowerChar(c) ==
    IF \E i \in 1..26 : UpperLetters[i] = c
    THEN LowerLetters[CHOOSE i \in 1..26 : UpperLetters[i] = c]
    ELSE c
UpperChar(c) ==
    IF \E i \in 1..26 : LowerLetters[i] = c
    THEN UpperLetters[CHOOSE i \in 1..26 : LowerLetters[i] = c]
    ELSE c
Lower(s) == [i \in 1..Len(s) |-> LowerChar(s[i])]

GOERLI == 5
SEPOLIA == 11155111
MAINNET == 1

Member(enum, name, value) == [enum |-> enum, name |-> name, value |-> value]
NetworkMembers ==
    <<Member("Network", "GOERLI", GOERLI),
      Member("Network", "SEPOLIA", SEPOLIA),
      Member("Network", "MAINNET", MAINNET)>>
TestLevelMembers ==
    <<Member("TestLevel", "ABI", <<"a", "b", "i">>),
      Member("TestLevel", "MINIMAL", <<"m", "i", "n", "i", "m", "a", "l">>),
      Member("TestLevel", "RECOMMENDED",
             <<"r", "e", "c", "o", "m", "m", "e", "n", "d", "e", "d">>),
      Member("TestLevel", "DESIRABLE",
             <<"d", "e", "s", "i", "r", "a", "b", "l", "e">>),
      Member("TestLevel", "ADDON", <<"a", "d", "d", "o", "n">>),
      Member("TestLevel", "FINGERPRINT",
             <<"f", "i", "n", "g", "e", "r", "p", "r", "i", "n", "t">>),
      Member("TestLevel", "ALL", <<"a", "l", "l">>)>>
PermissionMembers ==
    <<Member("Permission", "READ", <<"R", "E", "A", "D">>),
      Member("Permission", "WRITE", <<"W", "R", "I", "T", "E">>),
      Member("Permission", "ADMIN", <<"A", "D", "M", "I", "N">>)>>

\* Enum(value): the first member with that value, else ValueError.
EnumByValue(members, enum, value) ==
    IF \E i \in 1..Len(members) : members[i].value = value
    THEN Returned(members[CHOOSE i \in 1..Len(members) :
            /\ members[i].value = value
            /\ \A j \in 1..(i - 1) : members[j].value # value])
    ELSE Raised([cls |-> "ValueError", msg |-> " is not a valid ",
                 enum |-> enum, value |-> value])

\* Mutant: the names are compared without lower().
Network_from_str_CaseSensitive(network) ==
    IF network = <<"g", "o", "e", "r", "l", "i">> \/ network = <<"5">>
    THEN Returned(NetworkMembers[1])
    ELSE IF network = <<"s", "e", "p", "o", "l", "i", "a">>
            \/ network = <<"1", "1", "1", "5", "5", "1", "1", "1">>
    THEN Returned(NetworkMembers[2])
    ELSE IF network = <<"m", "a", "i", "n", "n", "e", "t">> \/ network = <<"1">>
    THEN Returned(NetworkMembers[3])
    ELSE Raised([cls |-> "ValueError",
                 msg |-> "Unexpected value for describing network: ",
                 value |-> network])

\* Network.from_str
Network_from_str(network) ==
    IF Lower(network) = <<"g", "o", "e", "r", "l", "i">> \/ network = <<"5">>
    THEN Returned(NetworkMembers[1])
    ELSE IF Lower(network) = <<"s", "e", "p", "o", "l", "i", "a">>
            \/ network = <<"1", "1", "1", "5", "5", "1", "1", "1">>
    THEN Returned(NetworkMembers[2])
    ELSE IF Lower(network) = <<"m", "a", "i", "n", "n", "e", "t">> \/ network = <<"1">>
    THEN Returned(NetworkMembers[3])
    ELSE Raised([cls |-> "ValueError",
                 msg |-> "Unexpected value for describing network: ",
                 value |-> network])

\* TestLevel.from_str
TestLevel_from_str(level) == EnumByValue(TestLevelMembers, "TestLevel", Lower(level))

\* Permission.from_str
Permission_from_str(permission) ==
    EnumByValue(PermissionMembers, "Permission", permission)

\* Mutant: address and symbol change places in the list.
required_attributes_Swapped ==
    <<<<"i", "d">>, <<"n", "a", "m", "e">>, <<"s", "y", "m", "b", "o", "l">>,
      <<"a", "d", "d", "r", "e", "s", "s">>, <<"d", "e", "c", "i", "m", "a", "l", "s">>,
      <<"t", "o", "t", "a", "l", "S", "u", "p", "p", "l", "y">>,
      <<"n", "e", "t", "w", "o", "r", "k">>>>

\* TokenInfo.from_dict: required_attributes, in the order the loop visits them.
required_attributes ==
    <<<<"i", "d">>, <<"n", "a", "m", "e">>, <<"a", "d", "d", "r", "e", "s", "s">>,
      <<"s", "y", "m", "b", "o", "l">>, <<"d", "e", "c", "i", "m", "a", "l", "s">>,
      <<"t", "o", "t", "a", "l", "S", "u", "p", "p", "l", "y">>,
      <<"n", "e", "t", "w", "o", "r", "k">>>>

\* raise KeyError(f'Missing attribute: {attribute}')
MissingAttribute(attribute) ==
    [cls |-> "KeyError", msg |-> "Missing attribute: ", attribute |-> attribute]
\* raise KeyError(f'Invalid dictionary: {e}') from e
InvalidDictionary(e) ==
    [cls |-> "KeyError", msg |-> "Invalid dictionary: ", detail |-> e, cause |-> e]

\* `key in value` for the values JSON decodes to: a key of a dict, an item of a
\* list, a substring of a string; a TypeError for None, a number or a boolean.
Contains(result, key) ==
    CASE result.t = "obj" -> Returned(key \in Keys(result))
      [] result.t = "arr" ->
            Returned(\E i \in 1..Len(result.items) : result.items[i] = PyStr(key))
      [] result.t = "str" ->
            Returned(\E i \in 1..Len(result.s) :
                        /\ i + Len(key) - 1 <= Len(result.s)
                        /\ SubSeq(result.s, i, i + Len(key) - 1) = key)
      [] OTHER ->
            Raised([cls |-> "TypeError", msg |-> "argument is not iterable"])

RECURSIVE FirstMissing(_, _)
\* The index of the first required attribute from i on that is not in the
\* iterable data_dict, 0 if all are there: the loop of lines 71-73.
FirstMissing(data_dict, i) ==
    IF i > Len(required_attributes) THEN 0
    ELSE IF ~Contains(data_dict, required_attributes[i]).value THEN i
    ELSE FirstMissing(data_dict, i + 1)

\* TokenInfo.from_dict.  `attribute not in data_dict` is a TypeError for None, a
\* number or a boolean, and so is data_dict['id'] for a list or a string; the
\* except clause for KeyError catches neither.
TokenInfo_from_dict(data_dict) ==
    IF Contains(data_dict, required_attributes[1]).kind = "raise"
    THEN Contains(data_dict, required_attributes[1])
    ELSE LET m == FirstMissing(data_dict, 1) IN
         IF m # 0
         THEN Raised(InvalidDictionary(MissingAttribute(required_attributes[m])))
         ELSE IF data_dict.t # "obj"
         THEN Raised([cls |-> "TypeError", msg |-> "indices must be integers"])
         ELSE Returned(
                [id |-> Lookup(data_dict, <<"i", "d">>),
                 name |-> Lookup(data_dict, <<"n", "a", "m", "e">>),
                 address |-> Lookup(data_dict, <<"a", "d", "d", "r", "e", "s", "s">>),
                 symbol |-> Lookup(data_dict, <<"s", "y", "m", "b", "o", "l">>),
                 decimals |-> Lookup(data_dict, <<"d", "e", "c", "i", "m", "a", "l", "s">>),
                 total_supply |-> Lookup(data_dict, <<"t", "o", "t", "a", "l", "S", "u", "p", "p", "l", "y">>),
                 network |-> Lookup(data_dict, <<"n", "e", "t", "w", "o", "r", "k">>)])

-----------------------------------------------------------------------------
(* Inputs of the domain types *)

\* The literals of the three enumerations, in lower case, and strings near them.
Words ==
    {<<"g", "o", "e", "r", "l", "i">>, <<"s", "e", "p", "o", "l", "i", "a">>, <<"m", "a", "i", "n", "n", "e", "t">>,
     <<"5">>, <<"1", "1", "1", "5", "5", "1", "1", "1">>, <<"1">>, <<"7">>, <<"0", "1">>, <<>>,
     <<"a", "b", "i">>, <<"m", "i", "n", "i", "m", "a", "l">>, <<"r", "e", "c", "o", "m", "m", "e", "n", "d", "e", "d">>, <<"d", "e", "s", "i", "r", "a", "b", "l", "e">>,
     <<"a", "d", "d", "o", "n">>, <<"f", "i", "n", "g", "e", "r", "p", "r", "i", "n", "t">>, <<"a", "l", "l">>,
     <<"r", "e", "a", "d">>, <<"w", "r", "i", "t", "e">>, <<"a", "d", "m", "i", "n">>,
     <<"m", "a", "i", "n", "n", "e", "t", " ">>, <<"g", "o", "e", "r", "l">>, <<"a", "l", "l", "l">>, <<"m", "a", "i", "n", "-", "n", "e", "t">>}
\* The positions to put in upper case: any of the first MaskWidth; 0 stands
\* for all of them.
Masks == SUBSET (0..MaskWidth)
Vary(w, mask) ==
    [i \in 1..Len(w) |-> IF 0 \in mask \/ i \in mask THEN UpperChar(w[i]) ELSE w[i]]
Strings == {Vary(w, mask) : w \in Words, mask \in Masks}

\* Number of keys a mapping may hold besides the seven required ones.
MaxExtraKeys == 1
ExtraKeys == SubSeq(<<<<"e", "x", "t", "r", "a">>, <<"o", "w", "n", "e", "r">>, <<"x">>>>, 1, MaxExtraKeys)
\* The insertion order of the mappings: not the order of required_attributes.
DictOrder ==
    ExtraKeys \o [i \in 1..Len(required_attributes) |->
                    required_attributes[Len(required_attributes) + 1 - i]]
TokenKeys == {DictOrder[i] : i \in 1..Len(DictOrder)}
TokenValues == {PyStr(<<"1">>), PyInt(6)}
MakeDict(K, f) ==
    LET present == SelectSeq(DictOrder, LAMBDA k : k \in K) IN
    PyDict([i \in 1..Len(present) |-> <<present[i], f[present[i]]>>])
TokenDicts == {MakeDict(K, f) : <<K, f>> \in
                 UNION {{<<K, f>> : f \in [K -> TokenValues]} : K \in SUBSET TokenKeys}}

DomainInputs == {PyStr(w) : w \in Strings} \cup TokenDicts \cup {None}

InitDomain ==
    /\ api_url = ConfigUrl
    /\ api_key = ConfigKey
    /\ pc = [p \in Procs |-> "idle"]
    /\ frame = [p \in Procs |-> NoFrame]
    /\ calls = [p \in Procs |-> <<>>]
    /\ reply = [p \in Procs |-> NoReply]
    /\ outcome = [p \in Procs |-> NoOutcome]
    /\ fn = "none"
    /\ arg \in DomainInputs
    /\ ret = NoOutcome

Apply(name, result) ==
    /\ fn = "none"
    /\ fn' = name
    /\ ret' = result
    /\ UNCHANGED <<arg, clientVars>>

NetworkFromStr == arg.t = "str" /\ Apply("Network.from_str", Network_from_str(arg.s))
TestLevelFromStr ==
    arg.t = "str" /\ Apply("TestLevel.from_str", TestLevel_from_str(arg.s))
PermissionFromStr ==
    arg.t = "str" /\ Apply("Permission.from_str", Permission_from_str(arg.s))
TokenInfoFromDict ==
    arg.t \in {"obj", "null"} /\ Apply("TokenInfo.from_dict", TokenInfo_from_dict(arg))

NextDomain ==
    \/ NetworkFromStr
    \/ TestLevelFromStr
    \/ PermissionFromStr
    \/ TokenInfoFromDict
SpecDomain == InitDomain /\ [][NextDomain]_vars

-----------------------------------------------------------------------------
(* Claims about the domain types *)

\* s is the lower-case word w with any of its letters in upper case.
CaseVariationOf(s, w) ==
    /\ Len(s) = Len(w)
    /\ \A i \in 1..Len(w) : s[i] \in {w[i], UpperChar(w[i])}

RaisedValueError(r) == r.kind = "raise" /\ r.exc.cls = "ValueError"

TestLevelLiterals ==
    {<<"a", "b", "i">>, <<"m", "i", "n", "i", "m", "a", "l">>, <<"r", "e", "c", "o", "m", "m", "e", "n", "d", "e", "d">>, <<"d", "e", "s", "i", "r", "a", "b", "l", "e">>,
     <<"a", "d", "d", "o", "n">>, <<"f", "i", "n", "g", "e", "r", "p", "r", "i", "n", "t">>, <<"a", "l", "l">>}
PermissionLiterals == {<<"R", "E", "A", "D">>, <<"W", "R", "I", "T", "E">>, <<"A", "D", "M", "I", "N">>}

\* C8: Network.from_str gives GOERLI, SEPOLIA or MAINNET for any case variation
\* of the name and for the exact id '5', '11155111' or '1'; TestLevel.from_str
\* gives the level for any case variation of its literal; Permission.from_str
\* gives the permission for the exact strings READ, WRITE, ADMIN; every other
\* string fails with InvalidArgument (ValueError).
C8_ParseAcceptsExactlyTheLiterals ==
    /\ fn = "Network.from_str" =>
        IF CaseVariationOf(arg.s, <<"g", "o", "e", "r", "l", "i">>) \/ arg.s = <<"5">>
        THEN ret = Returned([enum |-> "Network", name |-> "GOERLI", value |-> 5])
        ELSE IF CaseVariationOf(arg.s, <<"s", "e", "p", "o", "l", "i", "a">>)
                \/ arg.s = <<"1", "1", "1", "5", "5", "1", "1", "1">>
        THEN ret = Returned([enum |-> "Network", name |-> "SEPOLIA",
                             value |-> 11155111])
        ELSE IF CaseVariationOf(arg.s, <<"m", "a", "i", "n", "n", "e", "t">>) \/ arg.s = <<"1">>
        THEN ret = Returned([enum |-> "Network", name |-> "MAINNET", value |-> 1])
        ELSE RaisedValueError(ret)
    /\ fn = "TestLevel.from_str" =>
        IF \E w \in TestLevelLiterals : CaseVariationOf(arg.s, w)
        THEN /\ ret.kind = "return"
             /\ ret.value.enum = "TestLevel"
             /\ CaseVariationOf(arg.s, ret.value.value)
        ELSE RaisedValueError(ret)
    /\ fn = "Permission.from_str" =>
        IF arg.s \in PermissionLiterals
        THEN /\ ret.kind = "return"
             /\ ret.value.enum = "Permission"
             /\ ret.value.value = arg.s
        ELSE RaisedValueError(ret)

C8_Witness ==
    /\ fn = "Network.from_str"
    /\ arg.s = <<"M", "a", "i", "n", "n", "e", "t">>
    /\ ret.kind = "return"
    /\ ret.value.name = "MAINNET"

\* The seven keys, in the order the specification fixes.
SevenKeys ==
    <<<<"i", "d">>, <<"n", "a", "m", "e">>, <<"a", "d", "d", "r", "e", "s", "s">>,
      <<"s", "y", "m", "b", "o", "l">>, <<"d", "e", "c", "i", "m", "a", "l", "s">>,
      <<"t", "o", "t", "a", "l", "S", "u", "p", "p", "l", "y">>,
      <<"n", "e", "t", "w", "o", "r", "k">>>>
AbsentKeys(d) == {i \in 1..7 : SevenKeys[i] \notin Keys(d)}
ValueAt(d, k) == d.members[CHOOSE i \in 1..Len(d.members) : d.members[i][1] = k][2]

\* C9: TokenInfo.from_dict of a mapping with all seven keys returns the record
\* whose every field is the mapping's value for its key; of a mapping that
\* misses any of them it returns no record and fails with MissingField
\* (KeyError) naming the first absent key in the order id, name, address,
\* symbol, decimals, totalSupply, network.
C9_FromDictIsAllOrNothing ==
    (fn = "TokenInfo.from_dict" /\ arg.t = "obj") =>
        IF AbsentKeys(arg) = {}
        THEN /\ ret.kind = "return"
             /\ ret.value.id = ValueAt(arg, SevenKeys[1])
             /\ ret.value.name = ValueAt(arg, SevenKeys[2])
             /\ ret.value.address = ValueAt(arg, SevenKeys[3])
             /\ ret.value.symbol = ValueAt(arg, SevenKeys[4])
             /\ ret.value.decimals = ValueAt(arg, SevenKeys[5])
             /\ ret.value.total_supply = ValueAt(arg, SevenKeys[6])
             /\ ret.value.network = ValueAt(arg, SevenKeys[7])
        ELSE /\ ret.kind = "raise"
             /\ ret.exc.cls = "KeyError"
             /\ ret.exc.cause.attribute =
                    SevenKeys[CHOOSE i \in AbsentKeys(arg) :
                                \A j \in AbsentKeys(arg) : i <= j]
             /\ ret.exc.detail = ret.exc.cause

C9_Witness ==
    /\ fn = "TokenInfo.from_dict"
    /\ arg.t = "obj"
    /\ AbsentKeys(arg) = {3, 4, 7}
    /\ Len(arg.members) > 4
    /\ ret.kind = "raise"
    /\ ret.exc.cause.attribute = <<"a", "d", "d", "r", "e", "s", "s">>

-----------------------------------------------------------------------------
(* Claims about concurrent invocations *)

\* The outcome of invocation p follows from its own frame and its own reply.
OutcomeIsOwn(p) ==
    IF frame[p].method \notin {"GET", "POST", "DELETE"}
    THEN /\ outcome[p].kind = "raise"
         /\ IsUnsupportedMethod(outcome[p].exc)
         /\ outcome[p].exc.method = frame[p].method
    ELSE IF GotFailure(p)
    THEN /\ outcome[p].kind = "raise"
         /\ IsTransportError(outcome[p].exc)
         /\ outcome[p].exc.cause = reply[p].exc
    ELSE IF reply[p].response.status_code \notin {200, 201}
    THEN /\ outcome[p].kind = "raise"
         /\ IsHttpError(outcome[p].exc)
         /\ outcome[p].exc.status = reply[p].response.status_code
    ELSE IF Loads(reply[p].response.text).ok
    THEN outcome[p] = Returned(Loads(reply[p].response.text).val)
    ELSE /\ outcome[p].kind = "raise"
         /\ IsDecodeError(outcome[p].exc)
         /\ outcome[p].exc.doc = reply[p].response.text

\* The request of invocation p is built from the configuration and its own frame.
RequestIsOwn(p) ==
    \A i \in 1..Len(calls[p]) :
        /\ calls[p][i].url = ConfigUrl \o frame[p].end_point
        /\ calls[p][i].headers = [X_API_KEY |-> ConfigKey]
        /\ <<frame[p].method, calls[p][i].verb>> \in
                {<<"GET", "get">>, <<"POST", "post">>, <<"DELETE", "delete">>}
        /\ "json" \in DOMAIN calls[p][i] => calls[p][i].json = frame[p].data
        /\ "params" \in DOMAIN calls[p][i] =>
                calls[p][i].params = frame[p].parameters

\* C10: in every interleaving of concurrent invocations on one client, the
\* configuration keeps its construction value, and each invocation's request
\* and outcome follow from its own descriptor and the answer to its own
\* request; two invocations with the same descriptor and answer end the same.
C10_ConcurrentInvocationsAreIndependent ==
    /\ api_url = ConfigUrl
    /\ api_key = ConfigKey
    /\ \A p \in Procs :
        /\ RequestIsOwn(p)
        /\ Done(p) => OutcomeIsOwn(p)
    /\ \A p, q \in Procs :
        (Done(p) /\ Done(q) /\ frame[p] = frame[q] /\ reply[p] = reply[q]) =>
            outcome[p] = outcome[q]

C10_Witness ==
    \E p, q \in Procs :
        /\ p # q
        /\ Done(p)
        /\ Done(q)
        /\ GotResponse(p)
        /\ GotResponse(q)
        /\ outcome[p].kind = "return"
        /\ outcome[q].kind = "raise"

-----------------------------------------------------------------------------
(* OpenAPI (src/api.py): the endpoint wrappers over the client *)

RECURSIVE Join(_)
\* The characters of s as one string.
Join(s) == IF s = <<>> THEN "" ELSE Head(s) \o Join(Tail(s))

\* Network.__str__: str(self.value)
Network_str(member) == Join(NatDigits(member.value))

\* What a wrapper hands back: its return value or exception, and the lines it
\* printed on the way.
ApiOutcome(o, printed) ==
    IF o.kind = "return"
    THEN [kind |-> "return", value |-> o.value, printed |-> printed]
    ELSE [kind |-> "raise", exc |-> o.exc, printed |-> printed]

\* Mutant: the wrapper prints the failure and raises it again.
Generic_Reraises(message, o) ==
    IF o.kind = "return"
    THEN ApiOutcome(o, <<>>)
    ELSE ApiOutcome(o, <<message, o.exc>>)

\* _get_generic, _post_generic, _delete_generic around the client's outcome o:
\* the payload is returned; any Exception is printed after the message and the
\* function falls off its end, which returns None.
Generic(message, o) ==
    IF o.kind = "return"
    THEN ApiOutcome(o, <<>>)
    ELSE ApiOutcome(Returned(None), <<message, o.exc>>)

IdKey == <<"i", "d">>
ErrorString == PyStr(<<"E", "r", "r", "o", "r">>)
NoIdLine == "Error. No id in the object returned when creating a list"

\* get_token_info after the request: TokenInfo.from_dict on what _get_generic gave.
TokenInfoResult(generic) ==
    ApiOutcome(TokenInfo_from_dict(generic.value), generic.printed)

\* create_token_list after the request (lines 284-289).
TokenListResult(generic) ==
    LET result == generic.value IN
    IF Truthy(result)
    THEN LET has == Contains(result, IdKey) IN
         IF has.kind = "raise" THEN ApiOutcome(has, generic.printed)
         ELSE IF has.value
         THEN IF result.t = "obj"
              THEN ApiOutcome(Returned(Lookup(result, IdKey)), generic.printed)
              ELSE ApiOutcome(
                     Raised([cls |-> "TypeError",
                             msg |-> "indices must be integers"]),
                     generic.printed)
         ELSE ApiOutcome(Returned(ErrorString), Append(generic.printed, NoIdLine))
    ELSE ApiOutcome(Returned(ErrorString), generic.printed)

GenericNames == {"_get_generic", "_post_generic", "_delete_generic"}
ApiNames == GenericNames \cup {"get_token_info", "create_token_list"}

\* The message a wrapper hands to its generic function.
MessageOf(name, a) ==
    CASE name \in GenericNames -> a.message
      [] name = "get_token_info" ->
            <<"An error occurred when retrieving info of token on network ",
              Join(a.network), "(",
              Network_str(Network_from_str(a.network).value),
              ") at address ", a.address>>
      [] name = "create_token_list" ->
            <<"An error occurred when creating token list of name ",
              Join(a.name), ".">>

\* The request a wrapper asks the client for: get_data, post_data or
\* delete_data with the wrapper's endpoint, body and query.
RequestOf(name, a) ==
    CASE name = "_get_generic" ->
            [method |-> "GET", end_point |-> a.endpoint, data |-> None,
             parameters |-> a.parameters]
      [] name = "_post_generic" ->
            [method |-> "POST", end_point |-> a.endpoint, data |-> a.data,
             parameters |-> None]
      [] name = "_delete_generic" ->
            [method |-> "DELETE", end_point |-> a.endpoint, data |-> a.data,
             parameters |-> None]
      [] name = "get_token_info" ->
            [method |-> "GET",
             end_point |-> "tokens/"
                \o Network_str(Network_from_str(a.network).value)
                \o "/" \o a.address,
             data |-> None, parameters |-> None]
      [] name = "create_token_list" ->
            [method |-> "POST", end_point |-> "token-lists",
             data |-> PyDict(<< <<NameKey, PyStr(a.name)>>,
                                <<<<"d", "e", "s", "c", "r", "i", "p", "t", "i", "o", "n">>, PyStr(a.description)>> >>),
             parameters |-> None]

\* What the wrapper makes of the client's outcome o.
ApiResult(name, a, o) ==
    LET generic == Generic(MessageOf(name, a), o) IN
    CASE name \in GenericNames -> generic
      [] name = "get_token_info" ->
            IF generic.kind = "raise" THEN generic ELSE TokenInfoResult(generic)
      [] name = "create_token_list" ->
            IF generic.kind = "raise" THEN generic ELSE TokenListResult(generic)

\* The arguments the wrappers are called with.
TokenAddress == "0xdAC17F958D2ee523a2206206994597C13D831ec7"
ApiCalls ==
    {<<"_get_generic", [endpoint |-> "user", message |-> "get failed",
                       parameters |-> q]>> : q \in ParamValues}
    \cup {<<name, [endpoint |-> "token-lists", message |-> "change failed",
                  data |-> d]>> :
            name \in {"_post_generic", "_delete_generic"}, d \in DataValues}
    \cup {<<"get_token_info", [network |-> n, address |-> TokenAddress]>> :
            n \in {<<"M", "a", "i", "n", "n", "e", "t">>, <<"1">>, <<"7">>}}
    \cup {<<"create_token_list", [name |-> <<"l", "1">>, description |-> d]>> :
            d \in {<<>>, <<"m", "i", "n", "e">>}}

\* Bodies the service answers with: a whole token, a token without its symbol,
\* a created list, and values that are not objects.
TokenBody(K) ==
    Dumps(MakeDict(K, [k \in K |-> PyStr(<<"1">>)]))
RequiredKeys == {required_attributes[i] : i \in 1..Len(required_attributes)}
ApiBodies ==
    {TokenBody(RequiredKeys), TokenBody(RequiredKeys \ {<<"s", "y", "m", "b", "o", "l">>}),
     Dumps(PyDict(<< <<IdKey, PyStr(<<"l", "7">>)>> >>)),
     Dumps(PyList(<<PyStr(IdKey)>>)),
     Dumps(PyStr(<<"v", "a", "l", "i", "d">>)),
     Dumps(PyInt(0)),
     Dumps(PyBool(TRUE))}

\* The wrapper is entered with its arguments.
ApiEnter(name, a) ==
    /\ fn = "none"
    /\ pc[1] = "idle"
    /\ fn' = name
    /\ arg' = a
    /\ ret' = NoOutcome
    /\ UNCHANGED clientVars

\* Line 121: get_token_info parses its network first; a string that is no
\* network raises before any request is made.
ApiRejects ==
    /\ fn = "get_token_info"
    /\ ret = NoOutcome
    /\ pc[1] = "idle"
    /\ Network_from_str(arg.network).kind = "raise"
    /\ ret' = ApiOutcome(Network_from_str(arg.network), <<>>)
    /\ UNCHANGED <<fn, arg, clientVars>>

\* The wrapper calls get_data, post_data or delete_data, which enters
\* _send_request.
ApiDispatch ==
    /\ fn \in ApiNames
    /\ ret = NoOutcome
    /\ fn = "get_token_info" => Network_from_str(arg.network).kind = "return"
    /\ LET r == RequestOf(fn, arg) IN
       Call(1, r.method, r.end_point, r.data, r.parameters)

\* _send_request has returned or raised; the wrapper finishes with it.
ApiFinish ==
    /\ fn \in ApiNames
    /\ ret = NoOutcome
    /\ pc[1] = "done"
    /\ ret' = ApiResult(fn, arg, outcome[1])
    /\ UNCHANGED <<fn, arg, clientVars>>

\* The caller takes the wrapper's result; nothing of the call is kept.
ApiReturn ==
    /\ fn \in ApiNames
    /\ ret # NoOutcome
    /\ fn' = "none"
    /\ arg' = None
    /\ ret' = NoOutcome
    /\ pc' = [pc EXCEPT ![1] = "idle"]
    /\ frame' = [frame EXCEPT ![1] = NoFrame]
    /\ calls' = [calls EXCEPT ![1] = <<>>]
    /\ reply' = [reply EXCEPT ![1] = NoReply]
    /\ outcome' = [outcome EXCEPT ![1] = NoOutcome]
    /\ UNCHANGED <<api_url, api_key>>

\* One wrapper call at a time over the client; the wrappers pass only GET,
\* POST and DELETE, so the branch for other methods is never taken.
NextApi ==
    \/ \E c \in ApiCalls : ApiEnter(c[1], c[2])
    \/ ApiRejects
    \/ ApiDispatch
    \/ Send(1)
    \/ \E status_code \in StatusCodes, text \in Bodies \cup ApiBodies :
            TransportReturns(1, status_code, text)
    \/ \E e \in RequestExceptions : TransportRaises(1, e)
    \/ HandleRequestException(1)
    \/ HandleResponse(1)
    \/ ApiFinish
    \/ ApiReturn
SpecApi == Init /\ [][NextApi]_vars

-----------------------------------------------------------------------------
(* Claims about the endpoint wrappers *)

\* The wrapper has finished and the client's outcome is still at hand.
Finished(name) == fn = name /\ ret # NoOutcome /\ pc[1] = "done"

\* C11: _get_generic, _post_generic and _delete_generic catch every failure
\* the dispatcher raises, print the message and the failure, and return None;
\* on success they return the dispatcher's payload unchanged.  So after a
\* failed request get_token_info returns no TokenInfo (decoding None fails)
\* and create_token_list returns the string 'Error'.
C11_WrappersSwallowFailures ==
    /\ \A name \in {"_get_generic", "_post_generic", "_delete_generic"} :
        Finished(name) =>
            IF outcome[1].kind = "raise"
            THEN /\ ret.kind = "return"
                 /\ ret.value = None
                 /\ ret.printed = <<arg.message, outcome[1].exc>>
            ELSE /\ ret.kind = "return"
                 /\ ret.value = outcome[1].value
                 /\ ret.printed = <<>>
    /\ (Finished("get_token_info") /\ outcome[1].kind = "raise") =>
            /\ ret.kind = "raise"
            /\ ret.exc.cls = "TypeError"
            /\ Len(ret.printed) = 2
            /\ ret.printed[2] = outcome[1].exc
    /\ (Finished("create_token_list") /\ outcome[1].kind = "raise") =>
            /\ ret.kind = "return"
            /\ ret.value = PyStr(<<"E", "r", "r", "o", "r">>)
            /\ Len(ret.printed) = 2
            /\ ret.printed[2] = outcome[1].exc

C11_Witness ==
    /\ Finished("get_token_info")
    /\ GotResponse(1)
    /\ reply[1].response.status_code = 404
    /\ IsHttpError(outcome[1].exc)
    /\ ret.kind = "raise"

=============================================================================
